---- MODULE Spec2Model ----
(***************************************************************************)
(* A model of the policy RAG repository: the text utilities and chunker    *)
(* (src/src/utils.py), the ingestion run (src/src/ingest.py) and the query *)
(* pipeline (src/src/rag.py).                                              *)
(*                                                                         *)
(* A text is a sequence of characters, each a one-element string.  The     *)
(* model has seven specifications over one set of variables:                *)
(*   ChunkSpec    one call of the chunker, its loops taken step by step    *)
(*   IngestSpec   ingestion runs over a small file system and the store    *)
(*   Spec         one call of retrieve_and_answer, step by step            *)
(*   DeciderSpec  should_refuse applied to arbitrary result lists          *)
(*   CleanSpec    clean_text applied to a text and again to its result     *)
(*   ListSpec     list_files over a small directory tree                   *)
(*   ChatSpec     one POST /chat request handled by app.chat               *)
(***************************************************************************)
EXTENDS Integers, Sequences, FiniteSets, TLC

VARIABLES
    \* ---- chunker call (ChunkSpec)
    c_entry,     \* which function is called: "chunk_text", "word_window_chunk", "ingest_main"
    c_raw,       \* the text handed to the call (for ingest_main: what parse_file returned)
    c_text,      \* the text chunk_text / word_window_chunk works on
    c_size,      \* chunk_size_words
    c_overlap,   \* overlap_words
    c_pc,        \* "call", "blocks", "window", "done"
    c_blocks,    \* chunk_text: the blocks not yet visited by the for loop
    c_out,       \* chunk_text: out; at "done" the value returned
    c_words,     \* word_window_chunk: words
    c_win,       \* word_window_chunk: [start, chunks, running]
    c_iter,      \* iterations of the while loop taken in the current window call
    \* ---- ingestion (IngestSpec)
    i_fs,        \* the files under data_dir: path -> content, or Absent
    i_params,    \* the run's [size, overlap] (--chunk-size, --overlap)
    i_store,     \* the vector store: [exists, entries], entries a function id -> entry
    i_status,    \* how the last run since the last edit ended: "idle", "ok", "error", "raised", "hung"
    i_runs,      \* runs since the last edit of the files
    i_edits,     \* edits of the files so far
    \* ---- one call of retrieve_and_answer (Spec)
    q_store,     \* the store at persist_dir
    q_args,      \* [top_k, re_rank, threshold]
    q_pc,        \* "call", "retrieved", "ranked", "answering", "prompted", "generated",
                 \* "returned", "raised"
    q_err,       \* what raised: "none", "embedding", "no_collection", "predict"
    q_results,   \* results, as retrieve_top_k returned them
    q_ranked,    \* re_ranked_list
    q_prompt,    \* prompt
    q_gen,       \* what generate_with_openrouter returned: [none, text]
    q_ce,        \* the cross-encoder in rerank_with_crossencoder: "not_called",
                 \* "unavailable" (the import or the load raised), "loaded"
    q_call,      \* the generator call: "not_called", "no_key" (no API key set),
                 \* "failed" (the client call or the reading of its reply raised), "replied"
    q_out,       \* the dict returned: [answer, sources, refused]
    q_trace,     \* the steps of the query taken so far, in the order taken
    \* ---- one call of should_refuse (DeciderSpec)
    d_in,        \* [results, re_ranked, threshold]
    d_pc,        \* "call", "returned"
    d_out,       \* the value returned
    \* ---- clean_text applied twice (CleanSpec)
    n_in,        \* the argument: [none, text], none for Python's None
    n_pc,        \* "call", "once", "twice"
    n_once,      \* clean_text(argument)
    n_twice,     \* clean_text(clean_text(argument))
    \* ---- one call of list_files (ListSpec)
    l_fs,        \* the files under data_dir: a set of [dir, name]
    l_order,     \* the order in which the file system lists the directories
    l_pc,        \* "call", "done"
    l_out,       \* the paths yielded, in order
    \* ---- one POST /chat request (ChatSpec)
    h_req,       \* the request body as the handler reads it
    h_pc,        \* "request", "pipeline", "responded"
    h_calls,     \* calls of retrieve_and_answer made for the request
    h_resp       \* the response: [status, body], body giving each key None or Some(value)

cvars == <<c_entry, c_raw, c_text, c_size, c_overlap, c_pc, c_blocks, c_out, c_words, c_win, c_iter>>

ivars == <<i_fs, i_params, i_store, i_status, i_runs, i_edits>>

qvars == <<q_store, q_args, q_pc, q_err, q_results, q_ranked, q_prompt, q_gen, q_ce, q_call,
          q_out, q_trace>>

dvars == <<d_in, d_pc, d_out>>

nvars == <<n_in, n_pc, n_once, n_twice>>

lvars == <<l_fs, l_order, l_pc, l_out>>

hvars == <<h_req, h_pc, h_calls, h_resp>>

vars == <<cvars, ivars, qvars, dvars, nvars, lvars, hvars>>

\* ------------------------------------------------------------------ bounds
MaxWords == 4       \* words in a generated text
MaxSize == 3        \* largest chunk_size_words tried
MaxOverlap == 3     \* largest overlap_words tried
MaxIter == MaxWords + 2   \* cap on while-loop iterations followed in one window call
MaxDocWords == 3    \* words in the longest document of the file system
MaxEdits == 2       \* edits of the file system in one behaviour
MaxRuns == 2        \* ingestion runs between two edits
QueryDocWords == 2  \* words (one chunk each) in a document of a queried store
MaxTopK == 2        \* largest top_k tried
MaxResults == 2     \* longest result list handed to should_refuse directly

\* ------------------------------------------------------------------ characters
SP == " "
NL == "\n"
CR == "\r"
NBSP == "nbsp"      \* U+00A0
HOPEN == "<h>"      \* an opening tag <h1>..<h6>, attributes included
HCLOSE == "</h>"    \* a closing tag </h1>..</h6>
HASH == "#"

\* What Python's \s and str.split() / str.strip() treat as whitespace.
WS == {SP, NL, CR, NBSP}

IsWS(c) == c \in WS

Max(a, b) == IF a > b THEN a ELSE b
Min(a, b) == IF a < b THEN a ELSE b

\* Python slice s[a:b] on a sequence (0-based, negative indices count from the end).
PySlice(s, a, b) ==
    LET n == Len(s)
        lo == IF a < 0 THEN Max(a + n, 0) ELSE Min(a, n)
        hi == IF b < 0 THEN Max(b + n, 0) ELSE Min(b, n)
    IN  IF lo < hi THEN SubSeq(s, lo + 1, hi) ELSE <<>>

RECURSIVE Flatten(_)
Flatten(ss) == IF ss = <<>> THEN <<>> ELSE Head(ss) \o Flatten(Tail(ss))

\* str.strip(): drop leading and trailing whitespace.
RECURSIVE LStrip(_)
LStrip(t) == IF t # <<>> /\ IsWS(Head(t)) THEN LStrip(Tail(t)) ELSE t

RECURSIVE RStrip(_)
RStrip(t) == IF t # <<>> /\ IsWS(t[Len(t)]) THEN RStrip(SubSeq(t, 1, Len(t) - 1)) ELSE t

\* Strip dropping the leading whitespace only (lstrip for strip).
StripLeftOnly(t) == LStrip(t)

Strip(t) == RStrip(LStrip(t))

\* str.split(): the maximal runs of non-whitespace characters, in order.
RECURSIVE SplitFrom(_, _, _)
SplitFrom(t, cur, acc) ==
    IF t = <<>> THEN (IF cur = <<>> THEN acc ELSE Append(acc, cur))
    ELSE IF IsWS(Head(t))
         THEN SplitFrom(Tail(t), <<>>, IF cur = <<>> THEN acc ELSE Append(acc, cur))
         ELSE SplitFrom(Tail(t), Append(cur, Head(t)), acc)

Split(t) == SplitFrom(t, <<>>, <<>>)

\* " ".join(words)
RECURSIVE Join(_)
Join(ws) ==
    IF ws = <<>> THEN <<>>
    ELSE IF Len(ws) = 1 THEN ws[1]
    ELSE ws[1] \o <<SP>> \o Join(Tail(ws))

\* text.replace("\r\n", "\n")
RECURSIVE ReplaceCRLF(_)
ReplaceCRLF(t) ==
    IF t = <<>> THEN <<>>
    ELSE IF Len(t) >= 2 /\ t[1] = CR /\ t[2] = NL
         THEN <<NL>> \o ReplaceCRLF(SubSeq(t, 3, Len(t)))
         ELSE <<Head(t)>> \o ReplaceCRLF(Tail(t))

\* text.replace("\xa0", " ")
ReplaceNBSP(t) == [i \in 1..Len(t) |-> IF t[i] = NBSP THEN SP ELSE t[i]]

\* CollapseWS replacing whitespace two characters at a time (\s\s? for \s+): a
\* run of three characters is left as two spaces.
RECURSIVE CollapseWSPairs(_)
CollapseWSPairs(t) ==
    IF t = <<>> THEN <<>>
    ELSE IF IsWS(Head(t))
         THEN <<SP>> \o CollapseWSPairs(IF Len(t) >= 2 /\ IsWS(t[2])
                                        THEN SubSeq(t, 3, Len(t)) ELSE Tail(t))
         ELSE <<Head(t)>> \o CollapseWSPairs(Tail(t))

\* re.sub(r"\s+", " ", text): every maximal whitespace run becomes one space.
RECURSIVE CollapseWS(_)
CollapseWS(t) ==
    IF t = <<>> THEN <<>>
    ELSE IF IsWS(Head(t))
         THEN <<SP>> \o CollapseWS(LStrip(t))
         ELSE <<Head(t)>> \o CollapseWS(Tail(t))

\* utils.clean_text for a text that is not None.
clean_text(text) == Strip(CollapseWS(ReplaceNBSP(ReplaceCRLF(text))))

\* ------------------------------------------------------------------ split_by_headings
\* h_re.sub: the leftmost opening heading tag that has a closing tag after it is
\* rewritten, with the text up to the first closing tag, as "\n# " + inner + "\n".
RECURSIVE HSub(_)
HSub(t) ==
    IF t = <<>> THEN <<>>
    ELSE LET closes == {j \in 2..Len(t) : t[j] = HCLOSE}
         IN  IF t[1] = HOPEN /\ closes # {}
             THEN LET j == CHOOSE k \in closes : \A m \in closes : k <= m
                  IN  <<NL, HASH, SP>> \o SubSeq(t, 2, j - 1) \o <<NL>>
                         \o HSub(SubSeq(t, j + 1, Len(t)))
             ELSE <<Head(t)>> \o HSub(Tail(t))

\* SplitPoints matching '#' and a space only ((?m)^(?=# ) for (?m)^(?=#\s)).
SplitPointsSpaceOnly(t) ==
    {p \in 1..Len(t) : /\ (p = 1 \/ t[p - 1] = NL)
                       /\ t[p] = HASH
                       /\ p + 1 <= Len(t)
                       /\ t[p + 1] = SP}

\* The positions (1-based) where (?m)^(?=#\s) matches: a line start followed by
\* '#' and one whitespace character.
SplitPoints(t) ==
    {p \in 1..Len(t) : /\ (p = 1 \/ t[p - 1] = NL)
                       /\ t[p] = HASH
                       /\ p + 1 <= Len(t)
                       /\ IsWS(t[p + 1])}

\* re.split at those positions: the pieces between them, the first one included
\* even when it is empty.
RECURSIVE PartsFrom(_, _, _, _)
PartsFrom(t, p, cur, acc) ==
    IF p > Len(t) THEN Append(acc, cur)
    ELSE IF p \in SplitPoints(t)
         THEN PartsFrom(t, p + 1, <<t[p]>>, Append(acc, cur))
         ELSE PartsFrom(t, p + 1, Append(cur, t[p]), acc)

split_by_headings(text) ==
    LET parts == PartsFrom(HSub(text), 1, <<>>, <<>>)
        kept == SelectSeq(parts, LAMBDA p : p # <<>> /\ Strip(p) # <<>>)
    IN  [i \in 1..Len(kept) |-> Strip(kept[i])]

\* ------------------------------------------------------------------ word_window_chunk
\* The state of the while loop of word_window_chunk before its first test.
WindowStart == [start |-> 0, chunks |-> <<>>, running |-> TRUE]

\* WindowStep with the stride taken to be chunk_size_words: the overlap is forgotten.
WindowStepStrideSize(words, size, overlap, st) ==
    LET end == st.start + size
        appended == Append(st.chunks, Join(PySlice(words, st.start, end)))
    IN  IF ~(st.start < Len(words))
        THEN [st EXCEPT !.running = FALSE]
        ELSE IF end >= Len(words)
             THEN [start |-> st.start, chunks |-> appended, running |-> FALSE]
             ELSE [start |-> st.start + size, chunks |-> appended, running |-> TRUE]

\* WindowStep with the end test placed before the append: the last window is lost.
WindowStepEarlyBreak(words, size, overlap, st) ==
    LET end == st.start + size
        appended == Append(st.chunks, Join(PySlice(words, st.start, end)))
    IN  IF ~(st.start < Len(words))
        THEN [st EXCEPT !.running = FALSE]
        ELSE IF end >= Len(words)
             THEN [start |-> st.start, chunks |-> st.chunks, running |-> FALSE]
             ELSE [start |-> st.start + (size - overlap), chunks |-> appended,
                   running |-> TRUE]

\* WindowStep with the end test "end > len(words)": a window that ends exactly
\* at the last word is followed by one more.
WindowStepLateBreak(words, size, overlap, st) ==
    LET end == st.start + size
        appended == Append(st.chunks, Join(PySlice(words, st.start, end)))
    IN  IF ~(st.start < Len(words))
        THEN [st EXCEPT !.running = FALSE]
        ELSE IF end > Len(words)
             THEN [start |-> st.start, chunks |-> appended, running |-> FALSE]
             ELSE [start |-> st.start + (size - overlap), chunks |-> appended,
                   running |-> TRUE]

\* One test of the while condition and, when it holds, one pass through the body.
WindowStep(words, size, overlap, st) ==
    LET end == st.start + size
        appended == Append(st.chunks, Join(PySlice(words, st.start, end)))
    IN  IF ~(st.start < Len(words))
        THEN [st EXCEPT !.running = FALSE]
        ELSE IF end >= Len(words)
             THEN [start |-> st.start, chunks |-> appended, running |-> FALSE]
             ELSE [start |-> st.start + (size - overlap), chunks |-> appended,
                   running |-> TRUE]

\* chunk_text line 47: split_by_headings(text) or [text]
BlocksOf(text) ==
    LET blocks == split_by_headings(text)
    IN  IF blocks # <<>> THEN blocks ELSE <<text>>

\* ------------------------------------------------------------------ files and store
\* What a path holds: no file, a file whose open() raises, or a file with a text.
Absent == [kind |-> "absent", text |-> <<>>]
Unreadable == [kind |-> "unreadable", text |-> <<>>]
File(t) == [kind |-> "file", text |-> t]

\* The paths under data_dir the model knows: two files in data_dir itself and one
\* in a subdirectory that shares its stem with the first.
Paths == {[dir |-> "", stem |-> "a", ext |-> ".md"],
          [dir |-> "", stem |-> "b", ext |-> ".md"],
          [dir |-> "sub", stem |-> "a", ext |-> ".txt"]}

\* The store before any ingestion: the persist directory holds no collection.
NoCollection == [exists |-> FALSE, entries |-> <<>>]

\* The ingestion variables while nothing is ingested.
IngestIdle ==
    /\ i_fs = [p \in Paths |-> Absent]
    /\ i_params = [size |-> 1, overlap |-> 0]
    /\ i_store = NoCollection
    /\ i_status = "idle"
    /\ i_runs = 0
    /\ i_edits = 0

\* ------------------------------------------------------------------ query values
\* An optional number (a distance, a score): <<>> is None, <<x>> is x.
None == <<>>
Some(x) == <<x>>

\* The result dict of a call that has not returned.
NoResult == [answer |-> <<>>, sources |-> <<>>, refused |-> FALSE]

\* The query variables while no query is followed.
QueryIdle ==
    /\ q_store = NoCollection
    /\ q_args = [top_k |-> 1, re_rank |-> FALSE, threshold |-> 0]
    /\ q_pc = "returned"
    /\ q_err = "none"
    /\ q_results = <<>>
    /\ q_ranked = <<>>
    /\ q_prompt = <<>>
    /\ q_gen = [none |-> TRUE, text |-> <<>>]
    /\ q_ce = "not_called"
    /\ q_call = "not_called"
    /\ q_out = NoResult
    /\ q_trace = <<>>

\* The decider variables while no call of should_refuse is followed.
DeciderIdle ==
    /\ d_in = [results |-> <<>>, re_ranked |-> FALSE, threshold |-> 0]
    /\ d_pc = "returned"
    /\ d_out = TRUE

\* The clean_text variables while no call of clean_text is followed.
CleanIdle ==
    /\ n_in = [none |-> TRUE, text |-> <<>>]
    /\ n_pc = "twice"
    /\ n_once = <<>>
    /\ n_twice = <<>>

\* The list_files variables while no call of list_files is followed.
ListIdle ==
    /\ l_fs = {}
    /\ l_order = <<>>
    /\ l_pc = "done"
    /\ l_out = <<>>

\* The /chat variables while no request is followed.
ChatIdle ==
    /\ h_req = [json |-> "none"]
    /\ h_pc = "responded"
    /\ h_calls = 0
    /\ h_resp = [status |-> 0,
                 body |-> [error |-> <<>>, answer |-> <<>>, sources |-> <<>>, refused |-> <<>>]]

\* ------------------------------------------------------------------ the chunker as a function
\* The while loop of word_window_chunk run to its end, or for fuel turns.
RECURSIVE RunWindow(_, _, _, _, _)
RunWindow(words, size, overlap, st, fuel) ==
    IF ~st.running \/ fuel = 0 THEN st
    ELSE RunWindow(words, size, overlap, WindowStep(words, size, overlap, st), fuel - 1)

\* word_window_chunk(text, size, overlap): [chunks, returns].  A loop that ends
\* advances by at least one word a turn, so it ends within Len(words) + 1 turns;
\* one still running after that many never ends, and returns is FALSE.
word_window_chunk(text, size, overlap) ==
    LET words == Split(text)
    IN  IF Len(words) <= size
        THEN [chunks |-> <<Join(words)>>, returns |-> TRUE]
        ELSE LET st == RunWindow(words, size, overlap, WindowStart, Len(words) + 1)
             IN  [chunks |-> st.chunks, returns |-> ~st.running]

\* chunk_text, the for loop over the blocks from block k on.
RECURSIVE ChunkBlocks(_, _, _, _, _)
ChunkBlocks(blocks, k, size, overlap, out) ==
    IF k > Len(blocks) THEN [chunks |-> out, returns |-> TRUE]
    ELSE LET b_clean == clean_text(blocks[k])
         IN  IF b_clean = <<>>
             THEN ChunkBlocks(blocks, k + 1, size, overlap, out)
             ELSE IF Len(Split(b_clean)) <= size
                  THEN ChunkBlocks(blocks, k + 1, size, overlap, Append(out, b_clean))
                  ELSE LET w == word_window_chunk(b_clean, size, overlap)
                       IN  IF w.returns
                           THEN ChunkBlocks(blocks, k + 1, size, overlap, out \o w.chunks)
                           ELSE [chunks |-> out, returns |-> FALSE]

\* chunk_text(text, size, overlap): [chunks, returns].
chunk_text(text, size, overlap) == ChunkBlocks(BlocksOf(text), 1, size, overlap, <<>>)

\* ------------------------------------------------------------------ ChunkSpec
Letters == <<"a", "b", "c", "d", "e", "f">>

\* The texts of n words: word i is the i-th letter or a lone '#', and is followed
\* by a space or by a newline.
RECURSIVE TextsOf(_)
TextsOf(n) ==
    IF n = 0 THEN {<<>>}
    ELSE {t \o <<w, s>> : t \in TextsOf(n - 1), w \in {Letters[n], HASH}, s \in {SP, NL}}

\* Texts with a heading tag pair (its inner text of one or two words, words
\* before and lines after it), and one with an opening tag that is never closed.
HtmlTexts ==
    {pre \o <<HOPEN>> \o inner \o <<HCLOSE>> \o post :
        pre \in {<<>>, <<"a", SP>>, <<"a", NL>>},
        inner \in {<<"b">>, <<"b", SP, "c">>},
        post \in {<<>>, <<"d", NL>>, <<NL, HASH, SP, "d">>, <<NL, HASH, NL, "d">>}}
    \cup {<<"a", SP, HOPEN, "b">>}

GenTexts == UNION {TextsOf(n) : n \in 0..MaxWords} \cup HtmlTexts

Entries == {"chunk_text", "word_window_chunk", "ingest_main"}

ChunkInit ==
    /\ c_entry \in Entries
    /\ c_raw \in GenTexts
    /\ c_size \in 1..MaxSize
    /\ c_overlap \in 0..MaxOverlap
    /\ c_text = <<>>
    /\ c_pc = "call"
    /\ c_blocks = <<>>
    /\ c_out = <<>>
    /\ c_words = <<>>
    /\ c_win = WindowStart
    /\ c_iter = 0
    /\ IngestIdle
    /\ QueryIdle
    /\ DeciderIdle
    /\ CleanIdle
    /\ ListIdle
    /\ ChatIdle

\* ingest.parse_markdown_or_txt: the file's text, read verbatim.
parse_markdown_or_txt(content) == content

\* chunk_text(text, ...) is entered: the blocks are computed.
CallChunkText ==
    /\ c_pc = "call"
    /\ c_entry = "chunk_text"
    /\ c_text' = c_raw
    /\ c_blocks' = BlocksOf(c_raw)
    /\ c_pc' = "blocks"
    /\ UNCHANGED <<c_entry, c_raw, c_size, c_overlap, c_out, c_words, c_win, c_iter, ivars, qvars, dvars, nvars,
                   lvars, hvars>>

\* ingest.main, one file: parse_file, clean_text, the empty-text skip, then chunk_text.
CallIngestFile ==
    /\ c_pc = "call"
    /\ c_entry = "ingest_main"
    /\ LET txt == clean_text(parse_markdown_or_txt(c_raw))
       IN  /\ c_text' = txt
           /\ IF txt = <<>>
              THEN c_pc' = "done" /\ c_blocks' = <<>>
              ELSE c_pc' = "blocks" /\ c_blocks' = BlocksOf(txt)
    /\ UNCHANGED <<c_entry, c_raw, c_size, c_overlap, c_out, c_words, c_win, c_iter, ivars, qvars, dvars, nvars,
                   lvars, hvars>>

\* word_window_chunk(text, ...) is called directly: lines 32-37.
CallWordWindow ==
    /\ c_pc = "call"
    /\ c_entry = "word_window_chunk"
    /\ c_text' = c_raw
    /\ LET words == Split(c_raw)
       IN  /\ c_words' = words
           /\ IF Len(words) <= c_size
              THEN c_pc' = "done" /\ c_out' = <<Join(words)>>
              ELSE c_pc' = "window" /\ c_out' = c_out
    /\ c_win' = WindowStart
    /\ c_iter' = 0
    /\ UNCHANGED <<c_entry, c_raw, c_size, c_overlap, c_blocks, ivars, qvars, dvars, nvars,
                   lvars, hvars>>

\* chunk_text, one pass of "for b in blocks" (lines 49-56), up to the call of
\* word_window_chunk when the block is longer than chunk_size_words.
NextBlock ==
    /\ c_pc = "blocks"
    /\ c_blocks # <<>>
    /\ LET b_clean == clean_text(Head(c_blocks))
           words == Split(b_clean)
       IN  /\ c_blocks' = Tail(c_blocks)
           /\ IF b_clean = <<>>
              THEN UNCHANGED <<c_pc, c_out, c_words, c_win, c_iter>>
              ELSE IF Len(words) <= c_size
                   THEN /\ c_out' = Append(c_out, b_clean)
                        /\ UNCHANGED <<c_pc, c_words, c_win, c_iter>>
                   ELSE /\ c_pc' = "window"
                        /\ c_words' = words
                        /\ c_win' = WindowStart
                        /\ c_iter' = 0
                        /\ c_out' = c_out
    /\ UNCHANGED <<c_entry, c_raw, c_text, c_size, c_overlap, ivars, qvars, dvars, nvars,
                   lvars, hvars>>

\* word_window_chunk, one turn of the while loop (lines 38-43); when the loop
\* ends, the return (line 44) and, inside chunk_text, out.extend (line 56).
WindowIter ==
    /\ c_pc = "window"
    /\ c_iter < MaxIter
    /\ LET st == WindowStep(c_words, c_size, c_overlap, c_win)
       IN  /\ c_win' = st
           /\ c_iter' = c_iter + 1
           /\ IF st.running
              THEN UNCHANGED <<c_pc, c_out>>
              ELSE IF c_entry = "word_window_chunk"
                   THEN c_pc' = "done" /\ c_out' = st.chunks
                   ELSE c_pc' = "blocks" /\ c_out' = c_out \o st.chunks
    /\ UNCHANGED <<c_entry, c_raw, c_text, c_size, c_overlap, c_blocks, c_words, ivars, qvars, dvars, nvars,
                   lvars, hvars>>

\* chunk_text returns out (line 57).
ChunkReturn ==
    /\ c_pc = "blocks"
    /\ c_blocks = <<>>
    /\ c_pc' = "done"
    /\ UNCHANGED <<c_entry, c_raw, c_text, c_size, c_overlap, c_blocks, c_out, c_words,
                   c_win, c_iter, ivars, qvars, dvars, nvars,
                   lvars, hvars>>

ChunkNext ==
    \/ CallChunkText
    \/ CallIngestFile
    \/ CallWordWindow
    \/ NextBlock
    \/ WindowIter
    \/ ChunkReturn

ChunkSpec == ChunkInit /\ [][ChunkNext]_vars

\* ------------------------------------------------------------------ ingestion
\* list_files: the extensions taken.
Exts == {".pdf", ".md", ".txt", ".html", ".htm"}

\* The directories in the order os.walk visits them (top-down), and the file
\* names of the model in sorted() order.
WalkDirs == <<"", "sub">>
SortedNames == <<[stem |-> "a", ext |-> ".md"], [stem |-> "a", ext |-> ".txt"],
                 [stem |-> "b", ext |-> ".md"]>>

PathOf(d, n) == [dir |-> d, stem |-> n.stem, ext |-> n.ext]

\* list_files, one directory: its files, sorted, those with a listed extension.
DirListing(fs, d) ==
    LET names == SelectSeq(SortedNames,
                           LAMBDA n : /\ PathOf(d, n) \in Paths
                                      /\ fs[PathOf(d, n)] # Absent
                                      /\ n.ext \in Exts)
    IN  [k \in 1..Len(names) |-> PathOf(d, names[k])]

list_files(fs) == Flatten([k \in 1..Len(WalkDirs) |-> DirListing(fs, WalkDirs[k])])

\* parse_file: Markdown and text are read verbatim; for PDF and HTML the content
\* stands for the text the decoder extracts; any other extension gives "".
parse_file(path, content) ==
    IF path.ext \in {".md", ".txt"} THEN parse_markdown_or_txt(content)
    ELSE IF path.ext \in {".pdf", ".html", ".htm"} THEN content
    ELSE <<>>

\* Path(path).name: the path without its directories.
PathName(path) == [path EXCEPT !.dir = ""]

\* ChunkId numbering the chunks of a file from 1.
ChunkIdOneBased(path, i) == <<path.stem, i + 1>>

\* f"{Path(path).stem}__chunk_{i}"
ChunkId(path, i) == <<path.stem, i>>

\* The metadata of chunk i of a file (i is 0-based, as enumerate gives it).
ChunkMeta(path, i) ==
    [source |-> path, chunk_index |-> i, filename |-> PathName(path)]

\* main lines 97-100: the items one file adds to ids, metadatas, documents.
FileItems(path, chunks) ==
    [k \in 1..Len(chunks) |->
        [id |-> ChunkId(path, k - 1), document |-> chunks[k], metadata |-> ChunkMeta(path, k - 1)]]

\* main lines 82-100: the for loop over the files from file k on.  outcome is
\* "ok", "raised" (parse_file raised) or "hung" (chunk_text does not return).
RECURSIVE BuildBatch(_, _, _, _, _)
BuildBatch(fs, files, k, params, items) ==
    IF k > Len(files) THEN [items |-> items, outcome |-> "ok"]
    ELSE IF fs[files[k]] = Unreadable THEN [items |-> items, outcome |-> "raised"]
    ELSE LET txt == clean_text(parse_file(files[k], fs[files[k]].text))
             res == chunk_text(txt, params.size, params.overlap)
         IN  IF txt = <<>> THEN BuildBatch(fs, files, k + 1, params, items)
             ELSE IF ~res.returns THEN [items |-> items, outcome |-> "hung"]
             ELSE BuildBatch(fs, files, k + 1, params,
                             items \o FileItems(files[k], res.chunks))

\* The batch of a run over the files fs with the parameters params.
BatchOf(fs, params) == BuildBatch(fs, list_files(fs), 1, params, <<>>)

\* The store refuses a batch that names an id twice.
HasDuplicateIds(items) ==
    \E j, k \in 1..Len(items) : j # k /\ items[j].id = items[k].id

\* An upsert that keeps what is stored and writes an id it already holds under
\* a further index of the same document: append, not overwrite.
UpsertAppend(entries, items) ==
    LET n == Cardinality(DOMAIN entries)
        key(k) == IF items[k].id \in DOMAIN entries
                  THEN <<items[k].id[1], items[k].id[2] + n>>
                  ELSE items[k].id
        ids == {key(k) : k \in 1..Len(items)}
    IN  [id \in DOMAIN entries \cup ids |->
            IF id \in ids
            THEN LET k == CHOOSE j \in 1..Len(items) : key(j) = id
                 IN  [document |-> items[k].document, metadata |-> items[k].metadata]
            ELSE entries[id]]

\* collection.upsert(ids, documents, metadatas): every id of the batch is set to
\* the batch's document and metadata; every other entry stays.
Upsert(entries, items) ==
    LET ids == {items[k].id : k \in 1..Len(items)}
    IN  [id \in DOMAIN entries \cup ids |->
            IF id \in ids
            THEN LET k == CHOOSE j \in 1..Len(items) : items[j].id = id
                 IN  [document |-> items[k].document, metadata |-> items[k].metadata]
            ELSE entries[id]]

\* The document of n words, one word a line.
Doc(n) == Flatten([k \in 1..n |-> <<Letters[k], NL>>])

Contents == {Absent, Unreadable, File(Doc(1)), File(Doc(MaxDocWords))}

IngestParams == {[size |-> 1, overlap |-> 0], [size |-> 2, overlap |-> 0],
                 [size |-> 2, overlap |-> 1], [size |-> 1, overlap |-> 1]}

\* The chunker variables while no chunker call is followed.
ChunkIdle ==
    /\ c_entry = "chunk_text"
    /\ c_raw = <<>>
    /\ c_text = <<>>
    /\ c_size = 1
    /\ c_overlap = 0
    /\ c_pc = "done"
    /\ c_blocks = <<>>
    /\ c_out = <<>>
    /\ c_words = <<>>
    /\ c_win = WindowStart
    /\ c_iter = 0

IngestInit ==
    /\ i_fs \in [Paths -> Contents]
    /\ i_params \in IngestParams
    /\ i_store = NoCollection
    /\ i_status = "idle"
    /\ i_runs = 0
    /\ i_edits = 0
    /\ ChunkIdle
    /\ QueryIdle
    /\ DeciderIdle
    /\ CleanIdle
    /\ ListIdle
    /\ ChatIdle

\* IngestRun writing each file's chunks as soon as the file is chunked: a run
\* that fails at a later file has already written the earlier ones.
IngestRunUpsertPerFile ==
    /\ i_runs < MaxRuns
    /\ i_runs' = i_runs + 1
    /\ \E model_loads \in BOOLEAN :
          IF ~model_loads
          THEN i_status' = "error" /\ i_store' = i_store
          ELSE LET batch == BatchOf(i_fs, i_params)
                   created == [i_store EXCEPT !.exists = TRUE]
               IN  /\ i_status' = IF batch.outcome # "ok" THEN batch.outcome
                                  ELSE IF HasDuplicateIds(batch.items) THEN "error"
                                  ELSE "ok"
                   /\ i_store' = IF batch.items = <<>> THEN created
                                 ELSE [created EXCEPT
                                          !.entries = Upsert(i_store.entries, batch.items)]
    /\ UNCHANGED <<i_fs, i_params, i_edits, cvars, qvars, dvars, nvars,
                   lvars, hvars>>

\* ingest.main, one run.  The embedding model is loaded first (lines 65-68) and
\* may fail to load; then the collection is created if missing (lines 72-80), the
\* files are parsed and chunked (82-100) and the batch is upserted (102-108).  An
\* exception anywhere is caught and printed (109-111).
IngestRun ==
    /\ i_runs < MaxRuns
    /\ i_runs' = i_runs + 1
    /\ \E model_loads \in BOOLEAN :
          IF ~model_loads
          THEN i_status' = "error" /\ i_store' = i_store
          ELSE LET batch == BatchOf(i_fs, i_params)
                   created == [i_store EXCEPT !.exists = TRUE]
               IN  IF batch.outcome # "ok"
                   THEN i_status' = batch.outcome /\ i_store' = created
                   ELSE IF batch.items = <<>>
                   THEN i_status' = "ok" /\ i_store' = created
                   ELSE IF HasDuplicateIds(batch.items)
                   THEN i_status' = "error" /\ i_store' = created
                   ELSE /\ i_status' = "ok"
                        /\ i_store' = [created EXCEPT
                                          !.entries = Upsert(i_store.entries, batch.items)]
    /\ UNCHANGED <<i_fs, i_params, i_edits, cvars, qvars, dvars, nvars,
                   lvars, hvars>>

\* A file under data_dir is written, replaced or removed between runs.
EditFile ==
    /\ i_edits < MaxEdits
    /\ \E p \in Paths, c \in Contents :
          /\ c # i_fs[p]
          /\ i_fs' = [i_fs EXCEPT ![p] = c]
    /\ i_edits' = i_edits + 1
    /\ i_status' = "idle"
    /\ i_runs' = 0
    /\ UNCHANGED <<i_params, i_store, cvars, qvars, dvars, nvars,
                   lvars, hvars>>

IngestNext == IngestRun \/ EditFile

IngestSpec == IngestInit /\ [][IngestNext]_vars

\* ------------------------------------------------------------------ rag.py: the functions
\* should_refuse line 100: the distance cap 1.5, in tenths.
DistanceCapTenths == 15
\* assemble_extractive_answer line 194, _results_to_sources line 206 and
\* build_prompt line 156: the character ceilings.
ExcerptMaxLen == 800
SnippetMaxLen == 400
PromptSnippetMaxLen == 1200

\* Truncate cutting one character short of the limit.
TruncateOneShort(text, limit, dots) ==
    IF Len(text) <= limit THEN text ELSE SubSeq(text, 1, limit - 1) \o <<dots>>

\* text if len(text) <= limit else text[:limit] + dots
Truncate(text, limit, dots) ==
    IF Len(text) <= limit THEN text ELSE SubSeq(text, 1, limit) \o <<dots>>

\* InsertDesc placing a pair before the pairs of equal score: the sort is no
\* longer stable.
RECURSIVE InsertDescBeforeEqual(_, _)
InsertDescBeforeEqual(sorted, x) ==
    IF sorted = <<>> THEN <<x>>
    ELSE IF Head(sorted).score > x.score
         THEN <<Head(sorted)>> \o InsertDescBeforeEqual(Tail(sorted), x)
         ELSE <<x>> \o sorted

\* sorted(..., key=score, reverse=True): a stable sort by descending score, as an
\* insertion of each pair after the pairs whose score is not smaller.
RECURSIVE InsertDesc(_, _)
InsertDesc(sorted, x) ==
    IF sorted = <<>> THEN <<x>>
    ELSE IF Head(sorted).score >= x.score
         THEN <<Head(sorted)>> \o InsertDesc(Tail(sorted), x)
         ELSE <<x>> \o sorted

RECURSIVE SortDesc(_)
SortDesc(pairs) ==
    IF pairs = <<>> THEN <<>>
    ELSE InsertDesc(SortDesc(SubSeq(pairs, 1, Len(pairs) - 1)), pairs[Len(pairs)])

\* rerank_with_crossencoder returning the best-scored result alone.
RerankTopOnly(results, score_of) ==
    LET pairs == [k \in 1..Len(results) |-> [score |-> score_of[results[k].text], r |-> results[k]]]
        ranked == SortDesc(pairs)
    IN  [k \in 1..Min(1, Len(ranked)) |-> [ranked[k].r EXCEPT !.score = Some(ranked[k].score)]]

\* rerank_with_crossencoder once the model is loaded (lines 77-80): score_of gives
\* the model's score of a candidate text.
rerank_with_crossencoder(results, score_of) ==
    LET pairs == [k \in 1..Len(results) |-> [score |-> score_of[results[k].text], r |-> results[k]]]
        ranked == SortDesc(pairs)
    IN  [k \in 1..Len(ranked) |-> [ranked[k].r EXCEPT !.score = Some(ranked[k].score)]]

\* should_refuse with the empty-list test missing.
ShouldRefuseNoEmptyTest(results, re_ranked, threshold) ==
    IF results = <<>> THEN FALSE
    ELSE IF re_ranked /\ results[1].score # None
    THEN results[1].score[1] < threshold
    ELSE IF results[1].distance = None THEN FALSE
    ELSE results[1].distance[1] > DistanceCapTenths

\* should_refuse with the empty-list test made only when not re-ranked.
ShouldRefuseEmptyUnlessReranked(results, re_ranked, threshold) ==
    IF results = <<>> THEN ~re_ranked
    ELSE IF re_ranked /\ results[1].score # None
    THEN results[1].score[1] < threshold
    ELSE IF results[1].distance = None THEN FALSE
    ELSE results[1].distance[1] > DistanceCapTenths

\* should_refuse with <= for < in the score test.
ShouldRefuseScoreLeq(results, re_ranked, threshold) ==
    IF results = <<>> THEN TRUE
    ELSE IF re_ranked /\ results[1].score # None
    THEN results[1].score[1] <= threshold
    ELSE IF results[1].distance = None THEN FALSE
    ELSE results[1].distance[1] > DistanceCapTenths

\* should_refuse with >= for > in the distance test.
ShouldRefuseDistGeq(results, re_ranked, threshold) ==
    IF results = <<>> THEN TRUE
    ELSE IF re_ranked /\ results[1].score # None
    THEN results[1].score[1] < threshold
    ELSE IF results[1].distance = None THEN FALSE
    ELSE results[1].distance[1] >= DistanceCapTenths

\* should_refuse taking a missing score, when re_ranked, for one below every
\* threshold.
ShouldRefuseUnscoredRefuses(results, re_ranked, threshold) ==
    IF results = <<>> THEN TRUE
    ELSE IF re_ranked
    THEN (IF results[1].score = None THEN TRUE ELSE results[1].score[1] < threshold)
    ELSE IF results[1].distance = None THEN FALSE
    ELSE results[1].distance[1] > DistanceCapTenths

\* should_refuse(results, re_ranked, threshold)
should_refuse(results, re_ranked, threshold) ==
    IF results = <<>> THEN TRUE
    ELSE IF re_ranked /\ results[1].score # None
    THEN results[1].score[1] < threshold
    ELSE IF results[1].distance = None THEN FALSE
    ELSE results[1].distance[1] > DistanceCapTenths

\* The pieces an answer string is made of.
WsSeg == [kind |-> "ws"]                         \* whitespace ("\n\n", " ")
TextSeg(t) == [kind |-> "text", text |-> t]      \* running text
NoteSeg == [kind |-> "note"]                     \* "Note: Answer is based solely on ..."
RefusalSeg == [kind |-> "refusal"]               \* "I can only answer questions about ..."
\* "[source: <src>, chunk: <idx>]"
CiteSeg(src, idx) == [kind |-> "cite", src |-> src, idx |-> idx]

RefusalText == <<RefusalSeg>>

\* str.strip() on an answer.
RECURSIVE LStripSegs(_)
LStripSegs(a) == IF a # <<>> /\ Head(a) = WsSeg THEN LStripSegs(Tail(a)) ELSE a

RECURSIVE RStripSegs(_)
RStripSegs(a) ==
    IF a # <<>> /\ a[Len(a)] = WsSeg THEN RStripSegs(SubSeq(a, 1, Len(a) - 1)) ELSE a

StripSegs(a) == RStripSegs(LStripSegs(a))

\* "[source:" in answer
HasCitation(a) == \E k \in 1..Len(a) : a[k].kind = "cite"

\* SourceName reporting the stored path as it is.
SourceNameKeepsPath(meta) ==
    IF "source" \in DOMAIN meta THEN meta.source
    ELSE [dir |-> "", stem |-> "unknown", ext |-> ""]

\* meta.get("filename") or meta.get("source", "unknown"), then the part after the
\* last "/" (lines 151-153, 189-191, 210-212, 265-267).
SourceName(meta) ==
    PathName(IF "filename" \in DOMAIN meta THEN meta.filename
             ELSE IF "source" \in DOMAIN meta THEN meta.source
             ELSE [dir |-> "", stem |-> "unknown", ext |-> ""])

\* meta.get("chunk_index", "n/a")
ChunkIndex(meta) == IF "chunk_index" \in DOMAIN meta THEN meta.chunk_index ELSE "n/a"

\* build_prompt: the context block of every result (lines 148-158).
build_prompt(results) ==
    [k \in 1..Len(results) |->
        [src |-> SourceName(results[k].meta), idx |-> ChunkIndex(results[k].meta),
         snippet |-> Truncate(Strip(results[k].text), PromptSnippetMaxLen, " ...")]]

\* generate_with_openrouter with the exception handler returning the error's
\* text where it returns None.
GenerateReturnsErrorText(has_key, call_ok, content) ==
    IF ~has_key THEN [none |-> TRUE, text |-> <<>>]
    ELSE IF ~call_ok \/ content.none THEN [none |-> FALSE, text |-> <<TextSeg(<<"e">>)>>]
    ELSE [none |-> FALSE, text |-> StripSegs(content.text)]

\* generate_with_openrouter: None without an API key, None when the client call
\* or the reading of the reply raises, else the reply's content stripped.
generate_with_openrouter(has_key, call_ok, content) ==
    IF ~has_key \/ ~call_ok \/ content.none THEN [none |-> TRUE, text |-> <<>>]
    ELSE [none |-> FALSE, text |-> StripSegs(content.text)]

\* assemble_extractive_answer(results)
assemble_extractive_answer(results) ==
    IF results = <<>> THEN RefusalText
    ELSE LET top == results[1]
             excerpt == Truncate(Strip(top.text), ExcerptMaxLen, "...")
         IN  <<TextSeg(excerpt), WsSeg, CiteSeg(SourceName(top.meta), ChunkIndex(top.meta)),
               WsSeg, NoteSeg>>

\* _results_to_sources(results)
results_to_sources(results) ==
    [k \in 1..Len(results) |->
        [source |-> SourceName(results[k].meta),
         chunk_index |-> ChunkIndex(results[k].meta),
         snippet |-> Truncate(Strip(results[k].text), SnippetMaxLen, "...")]]

\* AnswerResult with the extractive fallback (lines 272-273) missing.
AnswerResultNoFallback(gen, ranked) ==
    LET answer == IF gen.none THEN <<>> ELSE gen.text
        cited == IF answer # <<>> /\ ~HasCitation(answer) /\ ranked # <<>>
                 THEN answer \o <<WsSeg, CiteSeg(SourceName(ranked[1].meta),
                                                  ChunkIndex(ranked[1].meta))>>
                 ELSE answer
    IN  [answer |-> cited, sources |-> results_to_sources(ranked), refused |-> FALSE]

\* AnswerResult with the citation post-check (lines 263-269) missing.
AnswerResultNoAppend(gen, ranked) ==
    LET answer == IF gen.none THEN <<>> ELSE gen.text
        final == IF answer = <<>> THEN assemble_extractive_answer(ranked) ELSE answer
    IN  [answer |-> final, sources |-> results_to_sources(ranked), refused |-> FALSE]

\* retrieve_and_answer lines 262-276: the citation post-check, the extractive
\* fallback and the dict returned.
AnswerResult(gen, ranked) ==
    LET answer == IF gen.none THEN <<>> ELSE gen.text
        cited == IF answer # <<>> /\ ~HasCitation(answer) /\ ranked # <<>>
                 THEN answer \o <<WsSeg, CiteSeg(SourceName(ranked[1].meta),
                                                  ChunkIndex(ranked[1].meta))>>
                 ELSE answer
        final == IF cited = <<>> THEN assemble_extractive_answer(ranked) ELSE cited
    IN  [answer |-> final, sources |-> results_to_sources(ranked), refused |-> FALSE]

\* retrieve_and_answer lines 248-255: the dict returned on refusal.
RefusalResult == [answer |-> RefusalText, sources |-> <<>>, refused |-> TRUE]

\* ------------------------------------------------------------------ Spec: retrieve_and_answer
\* The store one completed ingestion run over the files fs leaves behind.
StoreAfter(fs, params) ==
    [exists |-> TRUE, entries |-> Upsert(<<>>, BatchOf(fs, params).items)]

EmptyCollection == [exists |-> TRUE, entries |-> <<>>]

\* A chunk of one word that is one character longer than the excerpt of
\* assemble_extractive_answer.
LongChunk == [k \in 1..(ExcerptMaxLen + 1) |-> "x"]

\* The store one ingestion run leaves behind when b.md, the only file, holds
\* that one word: main lines 97-105 applied to its single chunk.
LongStore ==
    LET path == CHOOSE p \in Paths : p.stem = "b"
    IN  [exists |-> TRUE, entries |-> Upsert(<<>>, FileItems(path, <<LongChunk>>))]

\* The stores queried: no collection, an empty one, those ingested from files
\* of QueryDocWords one-word chunks each, and the one with the long chunk.
QueryStores ==
    {NoCollection, EmptyCollection, LongStore} \cup
    {StoreAfter(fs, [size |-> 1, overlap |-> 0]) :
        fs \in {f \in [Paths -> {Absent, File(Doc(QueryDocWords))}] :
                   ~HasDuplicateIds(BatchOf(f, [size |-> 1, overlap |-> 0]).items)}}

Dists == {DistanceCapTenths, DistanceCapTenths + 1}   \* at the cap, above it
Scores == {0, 1}
Thresholds == {0, 1}

\* What collection.query can return for top_k = k: min(k, count) distinct
\* entries in the store's order, with non-decreasing distances or with none.
Hits(entries, k) ==
    LET m == Min(k, Cardinality(DOMAIN entries))
        orders == {o \in [1..m -> DOMAIN entries] :
                      \A i, j \in 1..m : i # j => o[i] # o[j]}
        dists == {[i \in 1..m |-> None]} \cup
                 {d \in [1..m -> {Some(x) : x \in Dists}] :
                      \A i, j \in 1..m : i < j => d[i][1] <= d[j][1]}
    IN  {[i \in 1..m |-> [text |-> entries[o[i]].document, meta |-> entries[o[i]].metadata,
                           distance |-> d[i], score |-> None]] : o \in orders, d \in dists}

\* What the chat completion's content can be: missing, empty, blank, an answer
\* without a citation marker, an answer with one.
Replies ==
    {[none |-> TRUE, text |-> <<>>],
     [none |-> FALSE, text |-> <<>>],
     [none |-> FALSE, text |-> <<WsSeg>>],
     [none |-> FALSE, text |-> <<TextSeg(<<"t">>), WsSeg>>],
     [none |-> FALSE, text |-> <<TextSeg(<<"t">>), CiteSeg("llm", 0)>>]}

Init ==
    /\ q_store \in QueryStores
    /\ q_args \in [top_k : 1..MaxTopK, re_rank : BOOLEAN, threshold : Thresholds]
    /\ q_pc = "call"
    /\ q_err = "none"
    /\ q_results = <<>>
    /\ q_ranked = <<>>
    /\ q_prompt = <<>>
    /\ q_gen = [none |-> TRUE, text |-> <<>>]
    /\ q_ce = "not_called"
    /\ q_call = "not_called"
    /\ q_out = NoResult
    /\ q_trace = <<>>
    /\ ChunkIdle
    /\ IngestIdle
    /\ DeciderIdle
    /\ CleanIdle
    /\ ListIdle
    /\ ChatIdle

\* retrieve_top_k (line 240): the embedding model is loaded, the collection is
\* looked up (get_collection raises when there is none) and queried.
Retrieve ==
    /\ q_pc = "call"
    /\ q_trace' = Append(q_trace, "retrieve")
    /\ \E emb_loads \in BOOLEAN :
          IF ~emb_loads
          THEN q_pc' = "raised" /\ q_err' = "embedding" /\ q_results' = q_results
          ELSE IF ~q_store.exists
          THEN q_pc' = "raised" /\ q_err' = "no_collection" /\ q_results' = q_results
          ELSE /\ q_results' \in Hits(q_store.entries, q_args.top_k)
               /\ q_pc' = "retrieved"
               /\ q_err' = q_err
    /\ UNCHANGED <<q_store, q_args, q_ranked, q_prompt, q_gen, q_out, q_ce, q_call,
                 cvars, ivars, dvars, nvars,
                 lvars, hvars>>

\* Lines 241-244 with re_rank true: rerank_with_crossencoder.  A model that
\* fails to load gives the results back (lines 72-76); predict on an empty list
\* raises in the releases that index its first element and returns nothing in
\* the others.
Rerank ==
    /\ q_pc = "retrieved"
    /\ q_trace' = Append(q_trace, "rerank")
    /\ q_args.re_rank
    /\ \E ce_loads \in BOOLEAN :
          /\ q_ce' = IF ce_loads THEN "loaded" ELSE "unavailable"
          /\ IF ~ce_loads
             THEN q_ranked' = q_results /\ q_pc' = "ranked" /\ q_err' = q_err
             ELSE IF q_results = <<>>
             THEN \E predict_raises \in BOOLEAN :
                     IF predict_raises
                     THEN q_pc' = "raised" /\ q_err' = "predict" /\ q_ranked' = q_ranked
                     ELSE q_pc' = "ranked" /\ q_err' = q_err /\ q_ranked' = <<>>
             ELSE \E score_of \in [{q_results[k].text : k \in 1..Len(q_results)} -> Scores] :
                     /\ q_ranked' = rerank_with_crossencoder(q_results, score_of)
                     /\ q_pc' = "ranked"
                     /\ q_err' = q_err
    /\ UNCHANGED <<q_store, q_args, q_results, q_prompt, q_gen, q_out, q_call,
                 cvars, ivars, dvars, nvars,
                 lvars, hvars>>

\* Lines 241-242 with re_rank false: re_ranked_list = results.
SkipRerank ==
    /\ q_pc = "retrieved"
    /\ ~q_args.re_rank
    /\ q_ranked' = q_results
    /\ q_pc' = "ranked"
    /\ UNCHANGED <<q_store, q_args, q_err, q_results, q_prompt, q_gen, q_out, q_ce, q_call,
                 q_trace, cvars, ivars, dvars, nvars,
                 lvars, hvars>>

\* Lines 246-255: the refusal decision and, on refusal, the return.
Decide ==
    /\ q_pc = "ranked"
    /\ q_trace' = Append(q_trace, "decide")
    /\ IF should_refuse(q_ranked, q_args.re_rank, q_args.threshold)
       THEN q_pc' = "returned" /\ q_out' = RefusalResult
       ELSE q_pc' = "answering" /\ q_out' = q_out
    /\ UNCHANGED <<q_store, q_args, q_err, q_results, q_ranked, q_prompt, q_gen, q_ce, q_call,
                 cvars, ivars, dvars, nvars,
                 lvars, hvars>>

\* Line 257: build_prompt.
BuildPrompt ==
    /\ q_pc = "answering"
    /\ q_trace' = Append(q_trace, "prompt")
    /\ q_prompt' = build_prompt(q_ranked)
    /\ q_pc' = "prompted"
    /\ UNCHANGED <<q_store, q_args, q_err, q_results, q_ranked, q_gen, q_out, q_ce, q_call,
                 cvars, ivars, dvars, nvars,
                 lvars, hvars>>

\* Generate calling the generator a second time when its first call failed.
GenerateRetries ==
    /\ q_pc = "prompted"
    /\ q_trace' = Append(q_trace, "generate")
    /\ \E has_key \in BOOLEAN, call_ok \in BOOLEAN, content \in Replies :
          /\ q_gen' = generate_with_openrouter(has_key, call_ok, content)
          /\ q_call' = IF ~has_key THEN "no_key"
                       ELSE IF ~call_ok \/ content.none THEN "failed"
                       ELSE "replied"
          /\ q_pc' = IF has_key /\ ~call_ok /\ q_trace = <<"retrieve", "decide", "prompt">>
                     THEN "prompted" ELSE "generated"
    /\ UNCHANGED <<q_store, q_args, q_err, q_results, q_ranked, q_prompt, q_out, q_ce,
                 cvars, ivars, dvars, nvars,
                 lvars, hvars>>

\* Line 260: generate_with_openrouter.
Generate ==
    /\ q_pc = "prompted"
    /\ q_trace' = Append(q_trace, "generate")
    /\ \E has_key \in BOOLEAN, call_ok \in BOOLEAN, content \in Replies :
          /\ q_gen' = generate_with_openrouter(has_key, call_ok, content)
          /\ q_call' = IF ~has_key THEN "no_key"
                       ELSE IF ~call_ok \/ content.none THEN "failed"
                       ELSE "replied"
    /\ q_pc' = "generated"
    /\ UNCHANGED <<q_store, q_args, q_err, q_results, q_ranked, q_prompt, q_out, q_ce,
                 cvars, ivars, dvars, nvars,
                 lvars, hvars>>

\* Lines 262-276: citation post-check, extractive fallback, sources, return.
Finish ==
    /\ q_pc = "generated"
    /\ q_trace' = Append(q_trace, "postcheck")
    /\ q_out' = AnswerResult(q_gen, q_ranked)
    /\ q_pc' = "returned"
    /\ UNCHANGED <<q_store, q_args, q_err, q_results, q_ranked, q_prompt, q_gen, q_ce, q_call,
                 cvars, ivars, dvars, nvars,
                 lvars, hvars>>

Next ==
    \/ Retrieve
    \/ Rerank
    \/ SkipRerank
    \/ Decide
    \/ BuildPrompt
    \/ Generate
    \/ Finish

Spec == Init /\ [][Next]_vars

\* ------------------------------------------------------------------ DeciderSpec: should_refuse
DeciderDists == {DistanceCapTenths - 1, DistanceCapTenths, DistanceCapTenths + 1}
DeciderScores == {0 - 1, 0, 1}
DeciderThresholds == {0 - 1, 0, 1}

\* A result as should_refuse reads it: an optional score and an optional distance.
DeciderResults ==
    [score : {None} \cup {Some(x) : x \in DeciderScores},
     distance : {None} \cup {Some(x) : x \in DeciderDists}]

DeciderInit ==
    /\ d_in \in [results : UNION {[1..n -> DeciderResults] : n \in 0..MaxResults},
                 re_ranked : BOOLEAN,
                 threshold : DeciderThresholds]
    /\ d_pc = "call"
    /\ d_out = FALSE
    /\ ChunkIdle
    /\ IngestIdle
    /\ QueryIdle
    /\ CleanIdle
    /\ ListIdle
    /\ ChatIdle

\* should_refuse is called and returns.
CallShouldRefuse ==
    /\ d_pc = "call"
    /\ d_out' = should_refuse(d_in.results, d_in.re_ranked, d_in.threshold)
    /\ d_pc' = "returned"
    /\ UNCHANGED <<d_in, cvars, ivars, qvars, nvars,
                   lvars, hvars>>

DeciderNext == CallShouldRefuse

DeciderSpec == DeciderInit /\ [][DeciderNext]_vars

\* ------------------------------------------------------------------ CleanSpec: clean_text
MaxCleanLen == 5    \* characters in the longest text handed to clean_text

CleanChars == {"a", "b", SP, NL, CR, NBSP}

\* The arguments tried: None and every text of up to MaxCleanLen characters.
CleanArgs ==
    {[none |-> TRUE, text |-> <<>>]} \cup
    {[none |-> FALSE, text |-> t] : t \in UNION {[1..n -> CleanChars] : n \in 0..MaxCleanLen}}

CleanInit ==
    /\ n_in \in CleanArgs
    /\ n_pc = "call"
    /\ n_once = <<>>
    /\ n_twice = <<>>
    /\ ChunkIdle
    /\ IngestIdle
    /\ QueryIdle
    /\ DeciderIdle
    /\ ListIdle
    /\ ChatIdle

\* clean_text(argument): "" for None (lines 20-21), else lines 22-23.
CallCleanText ==
    /\ n_pc = "call"
    /\ n_once' = IF n_in.none THEN <<>> ELSE clean_text(n_in.text)
    /\ n_pc' = "once"
    /\ UNCHANGED <<n_in, n_twice, cvars, ivars, qvars, dvars,
                   lvars, hvars>>

\* clean_text applied to what the first call returned.
CallCleanTextAgain ==
    /\ n_pc = "once"
    /\ n_twice' = clean_text(n_once)
    /\ n_pc' = "twice"
    /\ UNCHANGED <<n_in, n_once, cvars, ivars, qvars, dvars,
                   lvars, hvars>>

CleanNext == CallCleanText \/ CallCleanTextAgain

CleanSpec == CleanInit /\ [][CleanNext]_vars

\* ------------------------------------------------------------------ query claims
\* C1: every dict retrieve_and_answer returns has sources empty exactly when
\* refused is true.
C1_SourcesIffRefused ==
    q_pc = "returned" => ((q_out.sources = <<>>) <=> q_out.refused)

\* C1 witness: an answer returned with two sources after re-ranking.
C1_Witness ==
    /\ q_pc = "returned"
    /\ ~q_out.refused
    /\ Len(q_out.sources) >= 2
    /\ q_args.re_rank

\* C2: a query against a store that holds no collection, or an empty one, does
\* not raise (the embedding model being available): it returns refused = true,
\* sources = [] and the canned refusal.
C2_EmptyStoreRefuses ==
    (/\ q_store.entries = <<>>
     /\ q_pc \in {"returned", "raised"}
     /\ q_err # "embedding") => (q_pc = "returned" /\ q_out = RefusalResult)

\* C9: should_refuse returns true for the empty result list, whatever the
\* threshold and whatever re_ranked.
C9_EmptyRefuses ==
    (d_pc = "returned" /\ d_in.results = <<>>) => d_out = TRUE

\* C9 witness: should_refuse has returned for an empty list with re_ranked true.
C9_Witness ==
    /\ d_pc = "returned"
    /\ d_in.results = <<>>
    /\ d_in.re_ranked
    /\ d_in.threshold < 0

\* C10: with re_ranked true and a score on the top result, should_refuse returns
\* true exactly when that score is below the threshold, whatever the top
\* result's distance and whatever the results after it.
C10_ScoreRule ==
    (/\ d_pc = "returned"
     /\ d_in.re_ranked
     /\ d_in.results # <<>>
     /\ d_in.results[1].score # None) =>
        (d_out <=> d_in.results[1].score[1] < d_in.threshold)

\* C10 witness: returned for a top score equal to the threshold, with a top
\* distance above the cap and a second result whose score is below the threshold.
C10_Witness ==
    /\ d_pc = "returned"
    /\ d_in.re_ranked
    /\ Len(d_in.results) >= 2
    /\ d_in.results[1].score = Some(d_in.threshold)
    /\ d_in.results[1].distance = Some(DistanceCapTenths + 1)
    /\ d_in.results[2].score # None
    /\ d_in.results[2].score[1] < d_in.threshold

\* C11: for a non-empty result list with re_ranked false, or with no score on the
\* top result, should_refuse returns true exactly when the top result has a
\* distance and that distance is above the cap 1.5, whatever the threshold.
C11_DistanceRule ==
    (/\ d_pc = "returned"
     /\ d_in.results # <<>>
     /\ (~d_in.re_ranked \/ d_in.results[1].score = None)) =>
        (d_out <=> (/\ d_in.results[1].distance # None
                    /\ d_in.results[1].distance[1] > DistanceCapTenths))

\* C11 witness: re_ranked is true, the top result has no score and a distance
\* equal to the cap, the threshold is above every score, and the call returned
\* false.
C11_Witness ==
    /\ d_pc = "returned"
    /\ d_in.re_ranked
    /\ d_in.results # <<>>
    /\ d_in.results[1].score = None
    /\ d_in.results[1].distance = Some(DistanceCapTenths)
    /\ d_in.threshold = 1
    /\ d_out = FALSE

\* The number of characters of an answer, each piece of fixed text counted as
\* one: len(answer) is 0 exactly when this is 0.
RECURSIVE AnswerLen(_)
AnswerLen(a) ==
    IF a = <<>> THEN 0
    ELSE (IF Head(a).kind = "text" THEN Len(Head(a).text) ELSE 1) + AnswerLen(Tail(a))

\* The citation block "[source: <filename>, chunk: <chunk_index>]" of a result.
CitationOf(r) == CiteSeg(r.meta.filename, r.meta.chunk_index)

\* C12: every dict retrieve_and_answer returns has a non-empty answer string: on
\* refusal, when the generator's text is used (an empty or blank reply included)
\* and on the extractive fallback.
C12_AnswerNonEmpty ==
    q_pc = "returned" => AnswerLen(q_out.answer) > 0

\* C12 witness: the generator replied with an empty or blank text and the call
\* returned an answer.
C12_Witness ==
    /\ q_pc = "returned"
    /\ ~q_out.refused
    /\ q_call = "replied"
    /\ q_gen = [none |-> FALSE, text |-> <<>>]

\* C13: every answer returned without refusal holds a citation marker: a
\* generated answer without one is returned with the top-ranked result's
\* citation appended, and the extractive fallback holds one.
C13_AnswerCited ==
    (q_pc = "returned" /\ ~q_out.refused) =>
        /\ HasCitation(q_out.answer)
        /\ (q_gen.text # <<>> /\ ~HasCitation(q_gen.text)) =>
              q_out.answer = q_gen.text \o <<WsSeg, CitationOf(q_ranked[1])>>
        /\ (q_gen.text # <<>> /\ HasCitation(q_gen.text)) => q_out.answer = q_gen.text
        /\ q_gen.text = <<>> => CitationOf(q_ranked[1]) \in {q_out.answer[k] : k \in DOMAIN q_out.answer}

\* C13 witness: the generator's answer had no marker, two results were ranked
\* and the answer was returned.
C13_Witness ==
    /\ q_pc = "returned"
    /\ ~q_out.refused
    /\ q_call = "replied"
    /\ q_gen.text # <<>>
    /\ ~HasCitation(q_gen.text)
    /\ Len(q_ranked) >= 2

\* C14: when no API key is set or the client call fails, generate_with_openrouter
\* returns None and nothing is raised, and retrieve_and_answer returns the
\* extractive answer with refused false and sources non-empty.
C14_GenerationFailureNotFatal ==
    q_call \in {"no_key", "failed"} =>
        /\ q_pc \in {"generated", "returned"}
        /\ q_gen.none
        /\ q_pc = "returned" =>
              /\ q_out.answer = assemble_extractive_answer(q_ranked)
              /\ ~q_out.refused
              /\ q_out.sources # <<>>

\* C14 witness: the client call failed with a key set, and the call returned.
C14_Witness ==
    /\ q_pc = "returned"
    /\ q_call = "failed"
    /\ q_args.re_rank
    /\ q_ce = "loaded"

\* The first n characters of a text, with the mark of elision after them when
\* the text is longer.
Shortened(text, n) == IF Len(text) <= n THEN text ELSE SubSeq(text, 1, n) \o <<"...">>

\* C15: with no API key or a failed generator call, an answer returned without
\* refusal is the top-ranked chunk's text cut to 800 characters, then one
\* citation block of that chunk, then the disclaimer, and holds no other
\* citation block.
C15_ExtractiveShape ==
    (q_pc = "returned" /\ ~q_out.refused /\ q_call \in {"no_key", "failed"}) =>
        /\ q_out.answer = <<TextSeg(Shortened(q_ranked[1].text, ExcerptMaxLen)), WsSeg,
                            CitationOf(q_ranked[1]), WsSeg, NoteSeg>>
        /\ Cardinality({k \in DOMAIN q_out.answer : q_out.answer[k].kind = "cite"}) = 1

\* C15 witness: no API key, re_rank false, the top chunk longer than 800
\* characters, and the answer returned.
C15_Witness ==
    /\ q_pc = "returned"
    /\ ~q_out.refused
    /\ q_call = "no_key"
    /\ ~q_args.re_rank
    /\ Len(q_ranked[1].text) > ExcerptMaxLen

\* The place of a ranked result in the list retrieve_top_k returned.
RetrievalRank(r) ==
    CHOOSE k \in 1..Len(q_results) : q_results[k].text = r.text /\ q_results[k].meta = r.meta

\* C16: what rerank_with_crossencoder returns with the model loaded is ordered
\* by score, highest first, and two results of equal score are in the order
\* retrieval gave them.
C16_SortedStable ==
    (q_ce = "loaded" /\ q_pc \notin {"retrieved", "raised"}) =>
        /\ Len(q_ranked) = Len(q_results)
        /\ \A i, j \in 1..Len(q_ranked) :
              i < j =>
                 /\ q_ranked[i].score # None /\ q_ranked[j].score # None
                 /\ q_ranked[i].score[1] >= q_ranked[j].score[1]
                 /\ q_ranked[i].score = q_ranked[j].score =>
                       RetrievalRank(q_ranked[i]) < RetrievalRank(q_ranked[j])

\* C16 witness: two results came back from the re-ranker with equal scores.
C16_Witness ==
    /\ q_ce = "loaded"
    /\ q_pc = "ranked"
    /\ Len(q_ranked) >= 2
    /\ q_ranked[1].score = q_ranked[2].score
    /\ q_ranked[1].score # None

\* The refusal the distance rule gives for a result list.
DistanceRefuses(results) ==
    \/ results = <<>>
    \/ /\ results[1].distance # None
       /\ results[1].distance[1] > DistanceCapTenths

\* C17: when the cross-encoder cannot be loaded, rerank_with_crossencoder gives
\* back the results as retrieved, in their order and without scores, nothing is
\* raised, and the call refuses exactly when the distance rule refuses.
C17_RerankerUnavailable ==
    q_ce = "unavailable" =>
        /\ q_pc # "raised"
        /\ q_ranked = q_results
        /\ \A k \in 1..Len(q_ranked) : q_ranked[k].score = None
        /\ q_pc \in {"answering", "prompted", "generated"} => ~DistanceRefuses(q_results)
        /\ q_pc = "returned" => (q_out.refused <=> DistanceRefuses(q_results))

\* C17 witness: re_rank was asked for, the model did not load, the threshold is
\* above every score and the call returned an answer for a top distance at the cap.
C17_Witness ==
    /\ q_ce = "unavailable"
    /\ q_args.re_rank
    /\ q_args.threshold = 1
    /\ q_pc = "returned"
    /\ ~q_out.refused
    /\ q_results # <<>>
    /\ q_results[1].distance = Some(DistanceCapTenths)

\* ------------------------------------------------------------------ ingestion claims
\* The entries of the store that belong to the document at path p.
StoredFor(p) ==
    {[id |-> id, document |-> i_store.entries[id].document,
      metadata |-> i_store.entries[id].metadata] :
        id \in {x \in DOMAIN i_store.entries : i_store.entries[x].metadata.source = p}}

\* The chunks the run over the present files produces for the document at p.
ProducedFor(p) ==
    LET items == BatchOf(i_fs, i_params).items
    IN  {items[k] : k \in {j \in 1..Len(items) : items[j].metadata.source = p}}

\* C7: after a run that ingested a document (again), the store's entries of that
\* document are exactly the chunks that run produced for it, also when it
\* produced fewer chunks than the run before.
C7_ReplacesChunks ==
    i_status = "ok" =>
        \A p \in Paths : ProducedFor(p) # {} => StoredFor(p) = ProducedFor(p)

\* C8: a run over the same files with the same parameters as the completed run
\* before it leaves the store as it was: same ids, same count, same text and
\* metadata per id.
C8_Idempotent ==
    [][(i_status = "ok" /\ i_runs >= 1 /\ i_runs' = i_runs + 1 /\ i_status' = "ok")
          => i_store' = i_store]_vars

\* C8 witness: a second completed run over unchanged files, with chunks stored.
C8_Witness ==
    /\ i_status = "ok"
    /\ i_runs >= 2
    /\ Cardinality(DOMAIN i_store.entries) >= 2

\* The chunks of the document at p, as main computes them (lines 86-95).
ChunksOfFile(p) ==
    IF i_fs[p] \in {Absent, Unreadable} THEN <<>>
    ELSE chunk_text(clean_text(parse_file(p, i_fs[p].text)),
                    i_params.size, i_params.overlap).chunks

\* The ids of the stored entries whose source is the document at p.
IdsStoredFor(p) ==
    {id \in DOMAIN i_store.entries : i_store.entries[id].metadata.source = p}

\* C22: after a run that ingested a document of n chunks, the store holds for it
\* the ids <stem>__chunk_i for i = 0..n-1, the entry of id i holding the i-th
\* chunk in document order, chunk_index i and the document's basename as
\* filename; in a store that held nothing before, these are all its entries.
C22_ChunkIdsAndMetadata ==
    i_status = "ok" =>
        \A p \in Paths :
            LET chunks == ChunksOfFile(p)
                n == Len(chunks)
            IN  n > 0 =>
                  /\ \A i \in 0..(n - 1) :
                        /\ <<p.stem, i>> \in DOMAIN i_store.entries
                        /\ i_store.entries[<<p.stem, i>>].document = chunks[i + 1]
                        /\ i_store.entries[<<p.stem, i>>].metadata.chunk_index = i
                        /\ i_store.entries[<<p.stem, i>>].metadata.filename
                             = [dir |-> "", stem |-> p.stem, ext |-> p.ext]
                  /\ i_edits = 0 =>
                        IdsStoredFor(p) = {<<p.stem, i>> : i \in 0..(n - 1)}

\* C22 witness: a completed run stored a document of a sub-directory in more
\* than one chunk.
C22_Witness ==
    /\ i_status = "ok"
    /\ \E p \in Paths :
          /\ p.dir # ""
          /\ Len(ChunksOfFile(p)) >= 2
          /\ <<p.stem, 1>> \in DOMAIN i_store.entries
          /\ i_store.entries[<<p.stem, 1>>].metadata.source = p

\* C29: in one ingestion run over any files no two chunks get the same id, so
\* that a run into a store that held nothing leaves as many entries as it
\* produced chunks.
C29_IdsUniqueInRun ==
    LET batch == BatchOf(i_fs, i_params)
    IN  (/\ i_runs >= 1
         /\ i_edits = 0
         /\ i_store.exists
         /\ i_status \in {"ok", "error"}
         /\ batch.outcome = "ok") =>
            /\ ~HasDuplicateIds(batch.items)
            /\ i_status = "ok" => Cardinality(DOMAIN i_store.entries) = Len(batch.items)

\* C30: a run writes to the store in one upsert, issued after every file was
\* parsed and chunked.  A run in which parsing or chunking a file does not
\* succeed leaves the entries of the store as they were, and a parse error ends
\* the run in main's handler; a run that changes the entries sets them to the
\* upsert of the whole batch.
C30_SingleUpsertAfterParsing ==
    [][i_runs' = i_runs + 1 =>
          LET batch == BatchOf(i_fs, i_params)
          IN  /\ batch.outcome # "ok" => i_store'.entries = i_store.entries
              /\ batch.outcome = "raised" => i_status' \in {"raised", "error"}
              /\ i_store'.entries # i_store.entries =>
                    /\ batch.outcome = "ok"
                    /\ i_status' = "ok"
                    /\ i_store'.entries = Upsert(i_store.entries, batch.items)]_vars

\* C30 witness: a run failed at a file that follows a file it had parsed and
\* chunked, in a store that held entries of an earlier run.
C30_Witness ==
    /\ i_status = "raised"
    /\ i_runs >= 1
    /\ DOMAIN i_store.entries # {}
    /\ BatchOf(i_fs, i_params).items # <<>>

\* ------------------------------------------------------------------ retrieve_and_answer: sources and steps
\* C25: every source of a returned answer names its file without a directory,
\* by the last component of the path stored at ingestion, and its chunk_index
\* is the chunk_index stored at ingestion with the chunk: the two together name
\* the store entry the text was retrieved from.
C25_SourcesAreBasenames ==
    (q_pc = "returned" /\ ~q_out.refused) =>
        /\ Len(q_out.sources) = Len(q_ranked)
        /\ \A k \in 1..Len(q_out.sources) :
              LET s == q_out.sources[k]
                  id == <<s.source.stem, s.chunk_index>>
              IN  /\ s.source.dir = ""
                  /\ s.source = [q_ranked[k].meta.source EXCEPT !.dir = ""]
                  /\ id \in DOMAIN q_store.entries
                  /\ q_store.entries[id].metadata = q_ranked[k].meta
                  /\ q_store.entries[id].metadata.chunk_index = s.chunk_index
                  /\ q_store.entries[id].document = q_ranked[k].text

\* C25 witness: an answer returned with a source from a file of a
\* sub-directory, not its first chunk.
C25_Witness ==
    /\ q_pc = "returned"
    /\ ~q_out.refused
    /\ \E k \in 1..Len(q_out.sources) :
          /\ q_ranked[k].meta.source.dir # ""
          /\ q_out.sources[k].chunk_index >= 1

\* The steps of a query in their order.
StepOrder == <<"retrieve", "rerank", "decide", "prompt", "generate", "postcheck">>
StepRank(s) == CHOOSE k \in 1..Len(StepOrder) : StepOrder[k] = s
Taken(s) == \E k \in 1..Len(q_trace) : q_trace[k] = s

\* C26: the steps of one query are taken in the order retrieve, re-rank,
\* decide, build prompt, generate, citation post-check, none of them twice;
\* re-ranking is taken only with re_rank true, prompt building and generation
\* only after a decision not to refuse, and a query that returns has retrieved
\* and decided once, has re-ranked when re_rank is true, and has built its
\* prompt, generated and post-checked exactly when it did not refuse.
C26_StepsInOrderOnce ==
    /\ \A i, j \in 1..Len(q_trace) :
          i < j => StepRank(q_trace[i]) < StepRank(q_trace[j])
    /\ Taken("rerank") => q_args.re_rank
    /\ Taken("prompt") =>
          Taken("decide") /\ ~should_refuse(q_ranked, q_args.re_rank, q_args.threshold)
    /\ Taken("generate") => Taken("prompt")
    /\ Taken("postcheck") => Taken("generate")
    /\ (q_pc = "returned" /\ q_out # NoResult) =>
          /\ Taken("retrieve") /\ Taken("decide")
          /\ Taken("rerank") <=> q_args.re_rank
          /\ Taken("prompt") <=> ~q_out.refused
          /\ Taken("postcheck") <=> ~q_out.refused

\* C26 witness: a query with re_rank true went through all six steps.
C26_Witness ==
    /\ q_pc = "returned"
    /\ q_trace = StepOrder

\* C28: what rerank_with_crossencoder returns is a permutation of the results
\* it was given: as many results, each input result exactly once with its text,
\* metadata and distance unchanged; when the model was loaded every returned
\* result carries a score.
C28_RerankPermutes ==
    (Taken("rerank") /\ q_pc # "raised") =>
        /\ Len(q_ranked) = Len(q_results)
        /\ \E f \in [1..Len(q_results) -> 1..Len(q_results)] :
              /\ \A i, j \in 1..Len(q_results) : i # j => f[i] # f[j]
              /\ \A k \in 1..Len(q_results) :
                    /\ q_ranked[k].text = q_results[f[k]].text
                    /\ q_ranked[k].meta = q_results[f[k]].meta
                    /\ q_ranked[k].distance = q_results[f[k]].distance
        /\ q_ce = "loaded" => \A k \in 1..Len(q_ranked) : q_ranked[k].score # None

\* C28 witness: the loaded model has put the second of two results first.
C28_Witness ==
    /\ Taken("rerank")
    /\ q_pc # "raised"
    /\ q_ce = "loaded"
    /\ Len(q_results) = 2
    /\ q_ranked[1].meta = q_results[2].meta
    /\ q_ranked[1].meta # q_results[1].meta

\* ------------------------------------------------------------------ clean_text claims
\* C18: clean_text applied to its own result gives that result again, for every
\* argument, None, the empty text and blank texts included, and clean_text of
\* the empty text is the empty text.
C18_CleanIdempotent ==
    /\ n_pc = "twice" => n_twice = n_once
    /\ (n_pc # "call" /\ n_in.text = <<>>) => n_once = <<>>

\* C18 witness: clean_text was applied twice to a text it changes into two
\* words.
C18_Witness ==
    /\ n_pc = "twice"
    /\ ~n_in.none
    /\ Len(n_in.text) = MaxCleanLen
    /\ n_once # n_in.text
    /\ Len(Split(n_once)) = 2

\* C19: what clean_text returns has no whitespace at either end, its only
\* whitespace is single spaces, one where the argument has a run of whitespace
\* between two words, and its words are the argument's words in their order.
C19_CleanWhitespace ==
    (n_pc # "call" /\ ~n_in.none) =>
        /\ n_once # <<>> => (~IsWS(n_once[1]) /\ ~IsWS(n_once[Len(n_once)]))
        /\ \A k \in 1..Len(n_once) : IsWS(n_once[k]) => n_once[k] = SP
        /\ \A k \in 1..(Len(n_once) - 1) : ~(IsWS(n_once[k]) /\ IsWS(n_once[k + 1]))
        /\ Split(n_once) = Split(n_in.text)

\* C19 witness: clean_text returned "a b" for a non-breaking space, "a", a
\* carriage return and a newline, "b".
C19_Witness ==
    /\ n_pc = "once"
    /\ n_in = [none |-> FALSE, text |-> <<NBSP, "a", CR, NL, "b">>]
    /\ n_once = <<"a", SP, "b">>

\* ------------------------------------------------------------------ chunker claims
\* The words of a chunk.
WordsOf(chunk) == Split(chunk)

LastN(s, n) == SubSeq(s, Len(s) - n + 1, Len(s))
FirstN(s, n) == SubSeq(s, 1, n)
Drop(s, n) == SubSeq(s, n + 1, Len(s))

\* C3: a chunker call with overlap_words >= chunk_size_words on a text of more than
\* chunk_size_words words is rejected with a configuration error: it never
\* returns chunks, and it never keeps looping (a window loop that ends takes at
\* most one turn per word).
C3_OverlapRejected ==
    (c_overlap >= c_size /\ Len(c_words) > c_size) =>
        /\ c_pc # "done"
        /\ c_iter <= Len(c_words)

\* The heading lines of a text that are not at its very start, as positions.
InnerHeadings(t) == {p \in SplitPoints(t) : Split(SubSeq(t, 1, p - 1)) # <<>>}

NonHashWords(t) == {w \in {Split(t)[i] : i \in 1..Len(Split(t))} : w # <<HASH>>}

\* C4: in the ingestion pipeline (parse_file, clean_text, chunk_text) no chunk
\* holds words from before and words from after a heading line that is not at the
\* start of the document.
C4_HeadingForcesBoundary ==
    (c_entry = "ingest_main" /\ c_pc = "done") =>
        \A p \in InnerHeadings(c_raw) : \A k \in 1..Len(c_out) :
            ~(/\ NonHashWords(SubSeq(c_raw, 1, p - 1)) \cap NonHashWords(c_out[k]) # {}
              /\ NonHashWords(SubSeq(c_raw, p + 1, Len(c_raw))) \cap NonHashWords(c_out[k]) # {})

\* C5: word_window_chunk with 0 <= overlap < size returns chunks of at most size
\* words each, and when the text has more than size words the last overlap words
\* of every chunk are the first overlap words of the chunk after it.
C5_SizeAndOverlap ==
    (c_entry = "word_window_chunk" /\ c_pc = "done" /\ c_overlap < c_size) =>
        /\ \A k \in 1..Len(c_out) : Len(WordsOf(c_out[k])) <= c_size
        /\ Len(Split(c_raw)) > c_size =>
               \A k \in 1..(Len(c_out) - 1) :
                   /\ Len(WordsOf(c_out[k])) >= c_overlap
                   /\ Len(WordsOf(c_out[k + 1])) >= c_overlap
                   /\ LastN(WordsOf(c_out[k]), c_overlap)
                          = FirstN(WordsOf(c_out[k + 1]), c_overlap)

\* C5 witness: a returned window chunking with a real overlap and three chunks.
C5_Witness ==
    /\ c_entry = "word_window_chunk"
    /\ c_pc = "done"
    /\ c_overlap >= 1
    /\ c_overlap < c_size
    /\ Len(Split(c_raw)) > c_size
    /\ Len(c_out) >= 3

\* A text without heading lines and without heading tags.
HeadingFree(t) == SplitPoints(t) = {} /\ \A i \in 1..Len(t) : t[i] \notin {HOPEN, HCLOSE}

\* The chunks put back together: the first chunk's words, then every later chunk's
\* words without its first overlap words.
RECURSIVE DedupConcat(_, _)
DedupConcat(chunks, overlap) ==
    IF chunks = <<>> THEN <<>>
    ELSE IF Len(chunks) = 1 THEN WordsOf(chunks[1])
    ELSE DedupConcat(SubSeq(chunks, 1, Len(chunks) - 1), overlap)
            \o Drop(WordsOf(chunks[Len(chunks)]), overlap)

WindowTexts == {Doc(n) : n \in 0..MaxWords}

WindowInit ==
    /\ c_entry = "word_window_chunk"
    /\ c_raw \in WindowTexts
    /\ c_size \in 1..MaxSize
    /\ c_overlap \in 0..MaxOverlap
    /\ c_text = <<>>
    /\ c_pc = "call"
    /\ c_blocks = <<>>
    /\ c_out = <<>>
    /\ c_words = <<>>
    /\ c_win = WindowStart
    /\ c_iter = 0
    /\ IngestIdle
    /\ QueryIdle
    /\ DeciderIdle
    /\ CleanIdle
    /\ ListIdle
    /\ ChatIdle

WindowNext == CallWordWindow \/ WindowIter

\* A call that can take a step takes it in the end: the interpreter goes on
\* running the call.
WindowSpec == WindowInit /\ [][WindowNext]_vars /\ WF_vars(WindowNext)

\* ceil(a / b) for a >= 0, b >= 1.
CeilDiv(a, b) == (a + b - 1) \div b

\* ceil((W - S) / (S - O)) + 1
WindowCount(w, s, o) == CeilDiv(w - s, s - o) + 1

\* A call of word_window_chunk with chunk_size_words >= 1 and
\* 0 <= overlap_words < chunk_size_words.
ValidWindowCall ==
    c_entry = "word_window_chunk" /\ c_size >= 1 /\ c_overlap >= 0 /\ c_overlap < c_size

\* The number of chunks and the turns of the loop, as C27 bounds them.
WindowCountHolds ==
    ValidWindowCall =>
        LET w == Len(Split(c_raw))
        IN  /\ c_pc = "window" => w > c_size /\ c_iter < WindowCount(w, c_size, c_overlap)
            /\ (c_pc = "done" /\ w > c_size) =>
                  /\ Len(c_out) = WindowCount(w, c_size, c_overlap)
                  /\ c_iter = Len(c_out)
                  /\ LET last == WordsOf(c_out[Len(c_out)])
                     IN  last # <<>> /\ last = LastN(Split(c_raw), Len(last))
            /\ (c_pc = "done" /\ w <= c_size) => Len(c_out) = 1 /\ c_iter = 0

\* C27: a call of word_window_chunk with chunk_size_words >= 1 and
\* 0 <= overlap_words < chunk_size_words returns; for a text of W > S words the
\* loop takes, and the call returns, exactly ceil((W - S) / (S - O)) + 1 chunks,
\* the last of them ending at the last word of the text.
C27_WindowTerminates ==
    /\ []WindowCountHolds
    /\ (ValidWindowCall ~> (c_pc = "done"))

\* C27 witness: a returned call with an overlap, more words than
\* chunk_size_words and a last window shorter than the stride asks for.
C27_Witness ==
    /\ ValidWindowCall
    /\ c_pc = "done"
    /\ c_overlap >= 1
    /\ Len(Split(c_raw)) > c_size
    /\ (Len(Split(c_raw)) - c_size) % (c_size - c_overlap) # 0
    /\ Len(c_out) >= 2

\* The starts of the lines of t that begin with '#' and a character of follow.
HeadingLineStarts(t, follow) ==
    {p \in 1..Len(t) : /\ (p = 1 \/ t[p - 1] = NL)
                       /\ t[p] = HASH
                       /\ p + 1 <= Len(t)
                       /\ t[p + 1] \in follow}

\* t cut at the positions cuts, from position from on: the pieces in order.
RECURSIVE PiecesFrom(_, _, _)
PiecesFrom(t, from, cuts) ==
    IF from > Len(t) THEN <<>>
    ELSE LET later == {c \in cuts : c > from}
             to == IF later = {} THEN Len(t) + 1
                   ELSE CHOOSE c \in later : \A d \in later : c <= d
         IN  <<SubSeq(t, from, to - 1)>> \o PiecesFrom(t, to, cuts)

\* The windows of size words, each starting size - overlap words after the one
\* before, up to the first that reaches the last word; none when the windows
\* never reach it.
WindowsOf(words, size, overlap) ==
    LET step == size - overlap
        n == Len(words)
        reaching == {m \in 1..n : (m - 1) * step + size >= n}
        last == IF reaching = {} THEN 0
                ELSE CHOOSE m \in reaching : \A k \in reaching : m <= k
    IN  [i \in 1..last |->
            Join(SubSeq(words, (i - 1) * step + 1, Min((i - 1) * step + size, n)))]

\* The chunks of a text whose heading lines begin with '#' and a character of
\* follow: block after block, a block of at most size words as one chunk, a
\* longer one as its windows; blank blocks give nothing.
HeadingChunks(t, follow, size, overlap) ==
    LET blocks == PiecesFrom(t, 1, HeadingLineStarts(t, follow))
    IN  Flatten([k \in 1..Len(blocks) |->
            LET words == Split(blocks[k])
            IN  IF words = <<>> THEN <<>>
                ELSE IF Len(words) <= size THEN <<Join(words)>>
                ELSE WindowsOf(words, size, overlap)])

\* C20: what chunk_text returns is, for the text with its heading tags rewritten,
\* the chunks of its blocks in document order, a block starting at every line
\* that begins with '# ' (and only there): one chunk for a block of at most
\* chunk_size_words words, the windows of a longer block, no chunk holding words
\* of two blocks.  Stated for overlap_words < chunk_size_words.
C20_SplitsAtHeadingLines ==
    (c_entry = "chunk_text" /\ c_pc = "done" /\ c_overlap < c_size) =>
        c_out = HeadingChunks(HSub(c_raw), {SP}, c_size, c_overlap)

\* C20 as amended: the same with a block starting at every line that begins with
\* '#' followed by any whitespace character, a newline included.
C20_SplitsAtHashWhitespaceLines ==
    (c_entry = "chunk_text" /\ c_pc = "done") =>
        c_out = HeadingChunks(HSub(c_raw), WS, c_size, c_overlap)

\* C20 witness: chunk_text returned for a text with a line holding '#' alone and
\* a block longer than chunk_size_words.
C20_Witness ==
    /\ c_entry = "chunk_text"
    /\ c_pc = "done"
    /\ HeadingLineStarts(c_raw, WS) # HeadingLineStarts(c_raw, {SP})
    /\ \E k \in 1..Len(c_out) : Len(Split(c_out[k])) = c_size /\ c_size >= 2
    /\ Len(c_out) >= 3

\* ------------------------------------------------------------------ ListSpec: list_files over a directory tree
\* A file name and a path are sequences of characters; a directory is the
\* sequence of the one-letter directory names that lead to it from data_dir.

\* The most files the tree under data_dir holds.
MaxFiles == 3

\* The code points of the characters the names are made of (str comparison
\* in Python compares code points).
CharRank ==
    [c \in {".", "/", "D", "M", "a", "b", "c", "d", "m", "s", "t", "u", "x", "z"} |->
        CASE c = "." -> 46 [] c = "/" -> 47 [] c = "D" -> 68 [] c = "M" -> 77
          [] c = "a" -> 97 [] c = "b" -> 98 [] c = "c" -> 99 [] c = "d" -> 100
          [] c = "m" -> 109 [] c = "s" -> 115 [] c = "t" -> 116 [] c = "u" -> 117
          [] c = "x" -> 120 [] c = "z" -> 122]

\* a < b for two str values.
RECURSIVE StrLess(_, _)
StrLess(a, b) ==
    IF b = <<>> THEN FALSE
    ELSE IF a = <<>> THEN TRUE
    ELSE IF a[1] # b[1] THEN CharRank[a[1]] < CharRank[b[1]]
    ELSE StrLess(Tail(a), Tail(b))

\* sorted(S) for a set of str values.
RECURSIVE Sorted(_)
Sorted(S) ==
    IF S = {} THEN <<>>
    ELSE LET least == CHOOSE x \in S : \A y \in S \ {x} : StrLess(x, y)
         IN  <<least>> \o Sorted(S \ {least})

\* str.lower, on the letters of the model.
LowerChar(c) == IF c = "M" THEN "m" ELSE IF c = "D" THEN "d" ELSE c
Lower(s) == [k \in 1..Len(s) |-> LowerChar(s[k])]

\* os.path.splitext(f)[1]: the name from its last dot on, unless only dots
\* precede that dot.
SplitExt(f) ==
    LET dots == {k \in 1..Len(f) : f[k] = "."}
        last == CHOOSE k \in dots : \A j \in dots : j <= k
    IN  IF dots = {} THEN <<>>
        ELSE IF \A j \in 1..(last - 1) : f[j] = "." THEN <<>>
        ELSE SubSeq(f, last, Len(f))

ListExts == {<<".", "p", "d", "f">>, <<".", "m", "d">>, <<".", "t", "x", "t">>,
             <<".", "h", "t", "m", "l">>, <<".", "h", "t", "m">>}

\* os.path.join(root, f), root being data_dir followed by the directories of dir;
\* the data_dir prefix, common to every path, is left out.
JoinPath(dir, f) == Flatten([k \in 1..Len(dir) |-> <<dir[k], "/">>]) \o f

\* d is directly inside dir.
IsChildDir(d, dir) == Len(d) = Len(dir) + 1 /\ SubSeq(d, 1, Len(dir)) = dir

\* dir is d or lies under d.
IsUnder(dir, d) == Len(dir) >= Len(d) /\ SubSeq(dir, 1, Len(d)) = d

\* The paths list_files yields from directory dir on: os.walk gives the
\* directory's own files first, of which the sorted eligible ones are yielded,
\* then walks its sub-directories in the order the file system lists them.
RECURSIVE WalkFrom(_, _, _)
WalkFrom(files, order, dir) ==
    LET names == {g.name : g \in {h \in files : h.dir = dir}}
        kept  == SelectSeq(Sorted(names), LAMBDA f : Lower(SplitExt(f)) \in ListExts)
        subs  == SelectSeq(order, LAMBDA d : /\ IsChildDir(d, dir)
                                             /\ \E g \in files : IsUnder(g.dir, d))
    IN  [k \in 1..Len(kept) |-> JoinPath(dir, kept[k])]
        \o Flatten([k \in 1..Len(subs) |-> WalkFrom(files, order, subs[k])])

ListFilesOf(files, order) == WalkFrom(files, order, <<>>)

\* The directories and file names of the model.
ListSubDirs == {<<"s">>, <<"t">>, <<"s", "u">>}
ListNames == {<<"a", ".", "m", "d">>, <<"z", ".", "m", "d">>, <<"b", ".", "M", "D">>,
              <<"c", ".", "t", "x", "t", "x">>}
ListUniverse == [dir : ListSubDirs \cup {<<>>}, name : ListNames]

\* The orders in which the file system may list the directories.
ListOrders ==
    {o \in [1..Cardinality(ListSubDirs) -> ListSubDirs] :
        \A i, j \in DOMAIN o : i # j => o[i] # o[j]}

ListInit ==
    /\ l_fs \in {F \in SUBSET ListUniverse : Cardinality(F) <= MaxFiles}
    /\ l_order \in ListOrders
    /\ l_pc = "call"
    /\ l_out = <<>>
    /\ ChunkIdle
    /\ IngestIdle
    /\ QueryIdle
    /\ DeciderIdle
    /\ CleanIdle
    /\ ChatIdle

\* list(list_files(data_dir))
CallListFiles ==
    /\ l_pc = "call"
    /\ l_out' = ListFilesOf(l_fs, l_order)
    /\ l_pc' = "done"
    /\ UNCHANGED <<l_fs, l_order, cvars, ivars, qvars, dvars, nvars, hvars>>

ListNext == CallListFiles

ListSpec == ListInit /\ [][ListNext]_vars

\* The files of the tree whose extension, lower-cased, is a listed one.
EligiblePaths == {JoinPath(g.dir, g.name) : g \in {h \in l_fs : Lower(SplitExt(h.name)) \in ListExts}}

\* C21: list_files yields exactly the files under data_dir, at any depth, whose
\* extension compared case-insensitively is one of pdf, md, txt, html, htm, each
\* once, and the whole sequence yielded is in lexicographic order.
C21_ListedSorted ==
    l_pc = "done" /\ l_fs # {} =>
        /\ {l_out[k] : k \in DOMAIN l_out} = EligiblePaths
        /\ Len(l_out) = Cardinality(EligiblePaths)
        /\ \A i, j \in DOMAIN l_out : i < j => StrLess(l_out[i], l_out[j])

\* ------------------------------------------------------------------ ChatSpec: app.chat, one POST /chat request
\* A request body is no JSON at all ("none": get_json gives None), a JSON object
\* ("object") or another truthy JSON value such as a list ("other").  A field of
\* the object is given by its kind: "missing"; for question "null", "empty",
\* "blank" (white space only), "text", "number" (a non-zero number, not a str);
\* for top_k and max_tokens "int" (int() accepts it) or "invalid" (int() raises);
\* for gen_model "text" or "number".
ChatRequests ==
    {[json |-> "none"], [json |-> "other"]}
    \cup [json : {"object"},
          question : {"missing", "null", "empty", "blank", "text", "number"},
          top_k : {"missing", "int", "invalid"},
          max_tokens : {"missing", "int", "invalid"},
          gen_model : {"missing", "text", "number"}]

\* A JSON body of keys and values; a key the body does not carry is None.
Body(error, answer, sources, refused) ==
    [error |-> error, answer |-> answer, sources |-> sources, refused |-> refused]

NoResponse == [status |-> 0, body |-> Body(None, None, None, None)]

\* chat line 64: the response to a request without a question.
MissingQuestionResponse ==
    [status |-> 400, body |-> Body(Some("Missing or empty 'question'"), None, None, None)]

\* chat line 93: the response to an exception.
ExceptionResponse ==
    [status |-> 500, body |-> Body(Some("str(e)"), Some(""), Some(<<>>), Some(TRUE))]

\* chat lines 84-86: a source that holds a "/" is cut to its last component.
\* A source is the sequence of the components of its path.
LastComponent(source) == IF Len(source) > 1 THEN <<source[Len(source)]>> ELSE source

\* chat lines 79-91: the response to a result of retrieve_and_answer.
ResultResponse(res) ==
    [status |-> 200,
     body |-> Body(None, Some(res.answer),
                   Some([k \in 1..Len(res.sources) |-> LastComponent(res.sources[k])]),
                   Some(res.refused))]

\* What retrieve_and_answer may return to the handler: a refusal or an answer
\* with its sources.
PipelineResults ==
    {[answer |-> "refusal", sources |-> <<>>, refused |-> TRUE],
     [answer |-> "answer", sources |-> <<<<"a.md">>>>, refused |-> FALSE],
     [answer |-> "answer", sources |-> <<<<"a.md">>, <<"a.txt">>>>, refused |-> FALSE]}

\* The question the handler goes on with, were whitespace-only text accepted.
QuestionUnstripped(req) ==
    IF req.json = "other" THEN [raises |-> TRUE, text |-> ""]
    ELSE IF req.json = "none" THEN [raises |-> FALSE, text |-> ""]
    ELSE IF req.question = "number" THEN [raises |-> TRUE, text |-> ""]
    ELSE IF req.question \in {"text", "blank"} THEN [raises |-> FALSE, text |-> req.question]
    ELSE [raises |-> FALSE, text |-> ""]

\* chat lines 61-62: data = get_json(...) or {}; (data.get("question") or "").strip().
\* A body that is no object has no get, a question that is no str has no strip:
\* both raise.  text is "" or "text".
QuestionOf(req) ==
    IF req.json = "other" THEN [raises |-> TRUE, text |-> ""]
    ELSE IF req.json = "none" THEN [raises |-> FALSE, text |-> ""]
    ELSE IF req.question = "number" THEN [raises |-> TRUE, text |-> ""]
    ELSE IF req.question = "text" THEN [raises |-> FALSE, text |-> "text"]
    ELSE [raises |-> FALSE, text |-> ""]

\* chat lines 65-68: int(top_k), bool(re_rank), int(max_tokens) and
\* gen_model.strip() raise on a value they cannot convert.
ParametersRaise(req) ==
    \/ req.top_k = "invalid"
    \/ req.max_tokens = "invalid"
    \/ req.gen_model = "number"

ChatInit ==
    /\ h_req \in ChatRequests
    /\ h_pc = "request"
    /\ h_calls = 0
    /\ h_resp = NoResponse
    /\ ChunkIdle
    /\ IngestIdle
    /\ QueryIdle
    /\ DeciderIdle
    /\ CleanIdle
    /\ ListIdle

\* chat lines 60-68: the request is read.
ReadRequest ==
    /\ h_pc = "request"
    /\ LET q == QuestionOf(h_req)
       IN  IF q.raises
           THEN h_resp' = ExceptionResponse /\ h_pc' = "responded"
           ELSE IF q.text = ""
           THEN h_resp' = MissingQuestionResponse /\ h_pc' = "responded"
           ELSE IF ParametersRaise(h_req)
           THEN h_resp' = ExceptionResponse /\ h_pc' = "responded"
           ELSE h_resp' = h_resp /\ h_pc' = "pipeline"
    /\ UNCHANGED <<h_req, h_calls, cvars, ivars, qvars, dvars, nvars, lvars>>

\* chat lines 70-93: get_rag imports the pipeline, which may fail; the pipeline
\* is called once and returns a result or raises.
CallPipeline ==
    /\ h_pc = "pipeline"
    /\ h_pc' = "responded"
    /\ \/ /\ h_calls' = h_calls
          /\ h_resp' = ExceptionResponse
       \/ /\ h_calls' = h_calls + 1
          /\ \/ h_resp' = ExceptionResponse
             \/ \E res \in PipelineResults : h_resp' = ResultResponse(res)
    /\ UNCHANGED <<h_req, cvars, ivars, qvars, dvars, nvars, lvars>>

ChatNext == ReadRequest \/ CallPipeline

ChatSpec == ChatInit /\ [][ChatNext]_vars

\* The request carries no question: no body, or an object whose question is
\* missing, null, empty or white space only.
NoQuestion(req) ==
    \/ req.json = "none"
    \/ req.json = "object" /\ req.question \in {"missing", "null", "empty", "blank"}

\* C23: a request whose question is missing, empty or white space only is
\* answered with the status 400 and an error message, whatever its other fields
\* are, and retrieve_and_answer is never called for it; a body that is no JSON
\* object is answered with an error too, without a call.
C23_NoQuestionRejected ==
    /\ NoQuestion(h_req) =>
          /\ h_pc # "pipeline"
          /\ h_calls = 0
          /\ h_pc = "responded" => h_resp.status = 400 /\ h_resp.body.error # None
    /\ h_req.json = "other" =>
          /\ h_pc # "pipeline"
          /\ h_calls = 0
          /\ h_pc = "responded" => h_resp.status >= 400 /\ h_resp.body.error # None

\* C23 witness: a request with a whitespace-only question and an invalid top_k
\* was answered.
C23_Witness ==
    /\ h_pc = "responded"
    /\ h_req.json = "object"
    /\ h_req.question = "blank"
    /\ h_req.top_k = "invalid"
    /\ h_resp.status = 400

\* C24: every request that fails (no question, a parameter that cannot be
\* converted, an exception in the pipeline) is answered with an object that
\* carries answer, sources and refused, refused being true and sources empty.
C24_FailureIsAnswerObject ==
    (h_pc = "responded" /\ h_resp.status # 200) =>
        /\ h_resp.body.answer # None
        /\ h_resp.body.sources = Some(<<>>)
        /\ h_resp.body.refused = Some(TRUE)

====
